---- MODULE Spec2Model ----
(***************************************************************************)
(* Model of src/src/keypair.js: the Keypair class, its construction paths  *)
(* (constructor, generate, fromMnemonic, fromSecretKey,                    *)
(* recoverFromMnemonic), its accessors, and a caller that holds            *)
(* Uint8Array references and writes into them.                             *)
(*                                                                         *)
(* Byte arrays are sequences over 0..255, indexed from 1 (JS index i is    *)
(* position i+1).  Uint8Array objects live in `mem` and are named by their *)
(* position there, so that two holders of the same array see each other's  *)
(* writes.                                                                 *)
(***************************************************************************)
EXTENDS Integers, Sequences, FiniteSets, TLC

\* ---- bounds of the model ------------------------------------------------
MaxKeypairs == 3        \* Keypair objects the caller builds in one run
MaxArrays == 2          \* Uint8Array objects the caller holds in one run
MaxRawKeypairs == 1     \* Keypair objects built by fromSecretKey in one run

\* ---- program constants --------------------------------------------------
SecretKeyLength == 64   \* secretKey.byteLength !== 64
PublicKeyOffset == 32   \* secretKey.slice(32, 64), slice(0, 32), i < 32
ByteRange == 256        \* Uint8Array element range

\* ---- values -------------------------------------------------------------
Undefined == "<undefined>"   \* the JS value undefined (no string is equal to it)
NoError == "<none>"          \* the call returned normally

ErrInvalidMnemonic == "Invalid mnemonic"
ErrNoMnemonic == "No mnemonic available to recover from"
ErrKeySize == "Invalid secret key size"
ErrKeyInvalid == "Provided secretKey is invalid"

\* Strings a caller passes as a mnemonic, and those bip39 accepts.
ValidMnemonics == {"legal winner", "letter advice"}
MnemonicInputs == ValidMnemonics \cup {"", "not a mnemonic"}

\* Seeds the curve service's random generation can draw.
RandomSeeds == {11, 12}

\* JS truthiness of a string-or-undefined value: if (mnemonic), !this._mnemonic
Truthy(v) == v # Undefined /\ v # ""

\* ---- external collaborators --------------------------------------------
\* bip39.validateMnemonic
validateMnemonic(s) == s \in ValidMnemonics

\* utils/ed25519.js getPublicKey: 32-byte private key -> 32-byte public key
getPublicKey(privateKey) ==
  [i \in 1..PublicKeyOffset |->
     (privateKey[i] * 3 + privateKey[PublicKeyOffset + 1 - i] * 7 + i) % ByteRange]

PrivateKeyOfSeed(seed) ==
  [i \in 1..PublicKeyOffset |-> (seed * 17 + i * 5) % ByteRange]

\* a curve keypair {publicKey: 32 bytes, secretKey: privateKey || publicKey}
CurveKeypair(seed) ==
  LET priv == PrivateKeyOfSeed(seed)
      pub == getPublicKey(priv)
  IN  [publicKey |-> pub, secretKey |-> priv \o pub]

MnemonicSeed(m) == IF m = "legal winner" THEN 1 ELSE 2

\* utils/ed25519.js fromMnemonic: deterministic keypair of a mnemonic
deriveKeypairFromMnemonic(m) == CurveKeypair(MnemonicSeed(m))

\* utils/ed25519.js generateKeypair, for the seed the random source yields
generateKeypair(seed) == CurveKeypair(seed)

\* ---- calls a Keypair operation makes on its collaborators ---------------
NoCalls == [generateMnemonic |-> 0, generateKeypair |-> 0,
            getPublicKey |-> 0, fromMnemonic |-> 0]

AddCalls(a, b) ==
  [generateMnemonic |-> a.generateMnemonic + b.generateMnemonic,
   generateKeypair |-> a.generateKeypair + b.generateKeypair,
   getPublicKey |-> a.getPublicKey + b.getPublicKey,
   fromMnemonic |-> a.fromMnemonic + b.fromMnemonic]

\* A secret key held by a Keypair is either a fresh array with the given
\* bytes (ref = 0) or the existing array the reference names.
FreshArray(bytes) == [ref |-> 0, bytes |-> bytes]
SameArray(ref) == [ref |-> ref, bytes |-> <<>>]

NoFields == [_keypair |-> [publicKey |-> <<>>, secretKey |-> FreshArray(<<>>)],
             _mnemonic |-> Undefined]

Threw(msg, calls) == [threw |-> msg, obj |-> NoFields, calls |-> calls]
Returned(obj, calls) == [threw |-> NoError, obj |-> obj, calls |-> calls]

\* ---- state --------------------------------------------------------------
\* A Uint8Array is named by a reference: a > 0 is the array mem[a] that the
\* caller created or was handed by an accessor; -p is the array own[p] that
\* the library allocated for Keypair p.
VARIABLES
  mem,       \* arrays created by the caller or returned to it
  own,       \* own[p]: the secret-key array allocated for Keypair p, if any
  owned,     \* references the caller holds
  kps,       \* Keypair objects: [_keypair: [publicKey, secretKey (a reference)], _mnemonic]
  path,      \* path[p]: the construction path that returned Keypair p
  returned,  \* <<a, p>>: reference a was returned by the secretKey accessor of p
  reads,     \* reads[p]: the bytes the first secretKey read of p returned
  last       \* the latest call: its arguments, outcome and collaborator calls

vars == <<mem, own, owned, kps, path, returned, reads, last>>

Call(op) ==
  [op |-> op, self |-> 0, mnemonic |-> Undefined, array |-> 0,
   skipValidation |-> FALSE, threw |-> NoError, result |-> 0,
   value |-> Undefined, bytes |-> <<>>, calls |-> NoCalls]

Init ==
  /\ mem = <<>>
  /\ own = <<>>
  /\ owned = {}
  /\ kps = <<>>
  /\ path = <<>>
  /\ returned = {}
  /\ reads = <<>>
  /\ last = Call("none")

\* the content of the array a reference names
Bytes(ref) == IF ref > 0 THEN mem[ref] ELSE own[-ref]

\* the bytes Keypair p holds as its secret key, and as its public key
SecretBytes(p) == Bytes(kps[p]._keypair.secretKey)
PublicBytes(p) == kps[p]._keypair.publicKey

\* ---- the Keypair class --------------------------------------------------
\* Uint8Array.prototype.slice(start, end): a copy of positions start..end-1
slice(bytes, start, end) ==
  SubSeq(bytes, start + 1, IF end < Len(bytes) THEN end ELSE Len(bytes))

Fields(keypair, mnemonic) == [_keypair |-> keypair, _mnemonic |-> mnemonic]

Derived(m) ==
  LET kp == deriveKeypairFromMnemonic(m)
  IN  [publicKey |-> kp.publicKey, secretKey |-> FreshArray(kp.secretKey)]

\* new Keypair(mnemonic); rnd is what bip39.generateMnemonic() would return
KeypairConstructor(mnemonic, rnd) ==
  IF Truthy(mnemonic)
  THEN IF ~validateMnemonic(mnemonic)
       THEN Threw(ErrInvalidMnemonic, NoCalls)
       ELSE Returned(Fields(Derived(mnemonic), mnemonic),
                     [NoCalls EXCEPT !.fromMnemonic = 1])
  ELSE Returned(Fields(Derived(rnd), rnd),
                [NoCalls EXCEPT !.generateMnemonic = 1, !.fromMnemonic = 1])

\* new KeypairFromGenerated(keypair): super(), then this._keypair = keypair
KeypairFromGenerated(keypair, rnd) ==
  LET super == KeypairConstructor(Undefined, rnd)
  IN  Returned([super.obj EXCEPT !._keypair = keypair], super.calls)

\* Keypair.generate(); seed is what the curve service's random source yields
generate(seed, rnd) ==
  LET keypair == generateKeypair(seed)
      made == KeypairFromGenerated(
                [publicKey |-> keypair.publicKey,
                 secretKey |-> FreshArray(keypair.secretKey)], rnd)
  IN  Returned(made.obj, AddCalls([NoCalls EXCEPT !.generateKeypair = 1], made.calls))

\* fromMnemonic without line 60 (instance._keypair = keypair)
fromMnemonic_keepsGeneratedKeys(mnemonic, rnd) ==
  IF ~validateMnemonic(mnemonic)
  THEN Threw(ErrInvalidMnemonic, NoCalls)
  ELSE LET instance == KeypairConstructor(Undefined, rnd)
       IN  Returned([instance.obj EXCEPT !._mnemonic = mnemonic],
                    AddCalls([NoCalls EXCEPT !.fromMnemonic = 1], instance.calls))

\* Keypair.fromMnemonic(mnemonic)
fromMnemonic(mnemonic, rnd) ==
  IF ~validateMnemonic(mnemonic)
  THEN Threw(ErrInvalidMnemonic, NoCalls)
  ELSE LET keypair == Derived(mnemonic)
           instance == KeypairConstructor(Undefined, rnd)
       IN  Returned([instance.obj EXCEPT !._keypair = keypair, !._mnemonic = mnemonic],
                    AddCalls([NoCalls EXCEPT !.fromMnemonic = 1], instance.calls))

\* this.recoverFromMnemonic()
recoverFromMnemonic(self, rnd) ==
  IF ~Truthy(kps[self]._mnemonic)
  THEN Threw(ErrNoMnemonic, NoCalls)
  ELSE fromMnemonic(kps[self]._mnemonic, rnd)

\* the size test written as byteLength < 64
WrongSize_shorterOnly(bytes) == Len(bytes) < SecretKeyLength

\* secretKey.byteLength !== 64
WrongSize(bytes) == Len(bytes) # SecretKeyLength

\* the comparison loop written as i < 31
KeysDiffer_skipsLastByte(publicKey, computedPublicKey) ==
  \E i \in 1..(PublicKeyOffset - 1) : publicKey[i] # computedPublicKey[i]

\* the loop over i < 32 that throws at the first differing byte
KeysDiffer(publicKey, computedPublicKey) ==
  \E i \in 1..PublicKeyOffset : publicKey[i] # computedPublicKey[i]

\* Keypair.fromSecretKey(secretKey, options); secretKey is a reference
fromSecretKey(secretKey, options, rnd) ==
  IF WrongSize(Bytes(secretKey))
  THEN Threw(ErrKeySize, NoCalls)
  ELSE LET publicKey == slice(Bytes(secretKey), PublicKeyOffset, SecretKeyLength)
           privateKey == slice(Bytes(secretKey), 0, PublicKeyOffset)
           computedPublicKey == getPublicKey(privateKey)
       IN  IF ~options.skipValidation /\ KeysDiffer(publicKey, computedPublicKey)
           THEN Threw(ErrKeyInvalid, [NoCalls EXCEPT !.getPublicKey = 1])
           ELSE LET made == KeypairFromGenerated(
                              [publicKey |-> publicKey,
                               secretKey |-> SameArray(secretKey)], rnd)
                IN  Returned(made.obj,
                             AddCalls([NoCalls EXCEPT !.getPublicKey =
                                         IF options.skipValidation THEN 0 ELSE 1],
                                      made.calls))

\* the accessor written as return this._keypair.secretKey
secretKey_returnsInternalArray(self) ==
  [array |-> kps[self]._keypair.secretKey, mem |-> mem]

\* get secretKey(): new Uint8Array(this._keypair.secretKey), a new array
secretKey(self) ==
  [array |-> Len(mem) + 1, mem |-> Append(mem, Bytes(kps[self]._keypair.secretKey))]

\* get publicKey(): the bytes the PublicKey wrapper is built from
publicKey(self) == kps[self]._keypair.publicKey

\* getMnemonic()
getMnemonic(self) == kps[self]._mnemonic

\* ---- the caller's steps -------------------------------------------------
\* The outcome of a construction call: a thrown error leaves no object; a
\* returned object is stored, its secret key in an array of its own unless it
\* is the array the caller passed in.
Outcome(call, ret, by) ==
  IF ret.threw # NoError
  THEN /\ last' = [call EXCEPT !.threw = ret.threw, !.calls = ret.calls]
       /\ UNCHANGED <<own, kps, path, reads>>
  ELSE LET sk == ret.obj._keypair.secretKey
           new == Len(kps) + 1
       IN  /\ Len(kps) < MaxKeypairs
           /\ own' = Append(own, sk.bytes)
           /\ kps' = Append(kps, [_keypair |-> [publicKey |-> ret.obj._keypair.publicKey,
                                                secretKey |-> IF sk.ref = 0 THEN -new
                                                              ELSE sk.ref],
                                  _mnemonic |-> ret.obj._mnemonic])
           /\ path' = Append(path, by)
           /\ reads' = Append(reads, <<>>)
           /\ last' = [call EXCEPT !.result = new, !.calls = ret.calls]

\* new Keypair() and new Keypair(mnemonic)
Construct ==
  \E mnemonic \in MnemonicInputs \cup {Undefined}, rnd \in ValidMnemonics :
    /\ Outcome([Call("constructor") EXCEPT !.mnemonic = mnemonic],
               KeypairConstructor(mnemonic, rnd), "constructor")
    /\ UNCHANGED <<mem, owned, returned>>

\* Keypair.generate()
Generate ==
  \E seed \in RandomSeeds, rnd \in ValidMnemonics :
    /\ Outcome(Call("generate"), generate(seed, rnd), "generate")
    /\ UNCHANGED <<mem, owned, returned>>

\* Keypair.fromMnemonic(mnemonic)
FromMnemonic ==
  \E mnemonic \in MnemonicInputs, rnd \in ValidMnemonics :
    /\ Outcome([Call("fromMnemonic") EXCEPT !.mnemonic = mnemonic],
               fromMnemonic(mnemonic, rnd), "fromMnemonic")
    /\ UNCHANGED <<mem, owned, returned>>

\* Keypair.fromSecretKey(k) and Keypair.fromSecretKey(k, {skipValidation: true})
FromSecretKey ==
  \E k \in owned, skip \in BOOLEAN, rnd \in ValidMnemonics :
    LET ret == fromSecretKey(k, [skipValidation |-> skip], rnd)
    IN  /\ \/ ret.threw # NoError
           \/ Cardinality({p \in DOMAIN path : path[p] = "fromSecretKey"}) < MaxRawKeypairs
        /\ Outcome([Call("fromSecretKey") EXCEPT !.array = k, !.skipValidation = skip,
                                                 !.bytes = Bytes(k)],
                   ret, "fromSecretKey")
        /\ UNCHANGED <<mem, owned, returned>>

\* p.recoverFromMnemonic()
RecoverFromMnemonic ==
  \E self \in DOMAIN kps, rnd \in ValidMnemonics :
    /\ Outcome([Call("recoverFromMnemonic") EXCEPT !.self = self],
               recoverFromMnemonic(self, rnd), "recoverFromMnemonic")
    /\ UNCHANGED <<mem, owned, returned>>

\* p.secretKey
ReadSecretKey ==
  \E self \in DOMAIN kps :
    LET got == secretKey(self)
        bytes == IF got.array > 0 THEN got.mem[got.array] ELSE own[-got.array]
    IN  /\ Cardinality(owned \cup {got.array}) <= MaxArrays
        /\ mem' = got.mem
        /\ owned' = owned \cup {got.array}
        /\ returned' = returned \cup {<<got.array, self>>}
        /\ reads' = IF reads[self] = <<>> THEN [reads EXCEPT ![self] = bytes] ELSE reads
        /\ last' = [Call("secretKey") EXCEPT !.self = self, !.array = got.array,
                                            !.bytes = bytes]
        /\ UNCHANGED <<own, kps, path>>

\* p.publicKey
ReadPublicKey ==
  \E self \in DOMAIN kps :
    /\ last' = [Call("publicKey") EXCEPT !.self = self, !.bytes = publicKey(self)]
    /\ UNCHANGED <<mem, own, owned, kps, path, returned, reads>>

\* p.getMnemonic()
GetMnemonic ==
  \E self \in DOMAIN kps :
    /\ last' = [Call("getMnemonic") EXCEPT !.self = self, !.value = getMnemonic(self)]
    /\ UNCHANGED <<mem, own, owned, kps, path, returned, reads>>

\* Secret keys a caller brings: a well-formed one, two whose claimed public
\* key is wrong in one byte (the first, the last), and wrong sizes.
GoodKey == CurveKeypair(21).secretKey
BadFirstByte ==
  [GoodKey EXCEPT ![PublicKeyOffset + 1] = (@ + 1) % ByteRange]
BadLastByte ==
  [GoodKey EXCEPT ![SecretKeyLength] = (@ + 1) % ByteRange]
KeyInputs ==
  {GoodKey, BadFirstByte, BadLastByte,
   SubSeq(GoodKey, 1, SecretKeyLength - 1), GoodKey \o <<0>>}

\* new Uint8Array(bytes) in the caller
CallerNewArray ==
  \E bytes \in KeyInputs :
    /\ Cardinality(owned) < MaxArrays
    /\ mem' = Append(mem, bytes)
    /\ owned' = owned \cup {Len(mem) + 1}
    /\ last' = [Call("newArray") EXCEPT !.array = Len(mem) + 1]
    /\ UNCHANGED <<own, kps, path, returned, reads>>

\* Positions and values the caller writes: a[i - 1] = v
WritePositions == {SecretKeyLength}
WriteValues == {0}

\* a[i - 1] = v on an array the caller holds; out of range is a no-op
CallerWrite ==
  \E a \in owned, i \in WritePositions, v \in WriteValues :
    /\ mem' = IF a > 0 /\ i \in DOMAIN mem[a] THEN [mem EXCEPT ![a][i] = v] ELSE mem
    /\ own' = IF a < 0 /\ i \in DOMAIN own[-a] THEN [own EXCEPT ![-a][i] = v] ELSE own
    /\ last' = [Call("write") EXCEPT !.array = a]
    /\ UNCHANGED <<owned, kps, path, returned, reads>>

\* A caller that builds Keypairs along the mnemonic and random paths.
NextMnemonic ==
  \/ Construct
  \/ Generate
  \/ FromMnemonic
  \/ RecoverFromMnemonic
  \/ GetMnemonic

SpecMnemonic == Init /\ [][NextMnemonic]_vars

\* A caller that builds Keypairs from raw key bytes, recovers them, reads
\* their secret keys and writes into the arrays it holds.
NextKeys ==
  \/ CallerNewArray
  \/ FromSecretKey
  \/ RecoverFromMnemonic
  \/ ReadSecretKey
  \/ CallerWrite

SpecKeys == Init /\ [][NextKeys]_vars

\* A caller that derives Keypairs from mnemonics, reads their keys and writes
\* into the arrays the secretKey accessor returned.
NextRead ==
  \/ FromMnemonic
  \/ ReadSecretKey
  \/ ReadPublicKey
  \/ CallerWrite

SpecRead == Init /\ [][NextRead]_vars

TypeOK ==
  /\ \A a \in DOMAIN mem : \A i \in DOMAIN mem[a] : mem[a][i] \in 0..(ByteRange - 1)
  /\ \A a \in owned : a \in DOMAIN mem \/ -a \in DOMAIN own
  /\ Len(kps) <= MaxKeypairs
  /\ DOMAIN path = DOMAIN kps /\ DOMAIN own = DOMAIN kps /\ DOMAIN reads = DOMAIN kps
  /\ \A p \in DOMAIN kps :
       LET ref == kps[p]._keypair.secretKey IN ref \in DOMAIN mem \/ ref = -p

\* ---- properties ---------------------------------------------------------
\* the state after the step: the secret-key bytes of Keypair p
NextSecretBytes(p) ==
  IF kps'[p]._keypair.secretKey > 0 THEN mem'[kps'[p]._keypair.secretKey]
  ELSE own'[-kps'[p]._keypair.secretKey]

RawPaths == {"generate", "fromSecretKey"}

\* C1: a Keypair whose getMnemonic() is present holds exactly the public and
\* secret key that the curve service derives from that mnemonic.
C1_MnemonicRederivesKeys ==
  \A p \in DOMAIN kps :
    getMnemonic(p) # Undefined =>
      /\ PublicBytes(p) = deriveKeypairFromMnemonic(getMnemonic(p)).publicKey
      /\ SecretBytes(p) = deriveKeypairFromMnemonic(getMnemonic(p)).secretKey

\* C2: getMnemonic() of a Keypair built by generate() or fromSecretKey() is
\* the absent value.
C2_RawPathsHaveNoMnemonic ==
  \A p \in DOMAIN kps : path[p] \in RawPaths => getMnemonic(p) = Undefined

\* C3: recoverFromMnemonic() on a Keypair built by fromSecretKey fails with
\* 'No mnemonic available to recover from' and returns no Keypair.
C3_RecoverOfRawKeyFails ==
  (last.op = "recoverFromMnemonic" /\ path[last.self] = "fromSecretKey") =>
    (last.threw = ErrNoMnemonic /\ last.result = 0)

\* C4: fromMnemonic(s) and new Keypair(s) fail with 'Invalid mnemonic' and
\* produce no Keypair for every string s that validateMnemonic rejects, the
\* empty string included.
C4_InvalidMnemonicRejected ==
  (/\ last.op \in {"fromMnemonic", "constructor"}
   /\ last.mnemonic # Undefined
   /\ ~validateMnemonic(last.mnemonic)) =>
    (last.threw = ErrInvalidMnemonic /\ last.result = 0)

\* fromSecretKey(k, options) returned a Keypair holding k's halves
BuiltFrom(k) ==
  /\ last.threw = NoError
  /\ last.result \in DOMAIN kps
  /\ PublicBytes(last.result) = slice(k, PublicKeyOffset, SecretKeyLength)
  /\ SecretBytes(last.result) = k

\* C5: for a 64-byte k, fromSecretKey(k) returns a Keypair exactly when
\* k[32:64] is the public key of k[0:32] and otherwise fails with 'Provided
\* secretKey is invalid'; with skipValidation it always returns a Keypair;
\* the Keypair's public key is k[32:64] and its secret key is k.
C5_ValidationOfRawKey ==
  (last.op = "fromSecretKey" /\ Len(last.bytes) = SecretKeyLength) =>
    LET k == last.bytes
        matches == slice(k, PublicKeyOffset, SecretKeyLength)
                     = getPublicKey(slice(k, 0, PublicKeyOffset))
    IN  IF last.skipValidation \/ matches
        THEN BuiltFrom(k)
        ELSE last.threw = ErrKeyInvalid /\ last.result = 0

C5_Witness ==
  /\ last.op = "fromSecretKey"
  /\ last.bytes = BadLastByte
  /\ last.skipValidation
  /\ BuiltFrom(BadLastByte)

\* C6: fromSecretKey of a byte sequence whose length is not 64 fails with
\* 'Invalid secret key size' whatever the options, before any call to a
\* collaborator, and no Keypair built by fromSecretKey holds a secret key of
\* another length.
C6_WrongSizeRejected ==
  /\ (last.op = "fromSecretKey" /\ Len(last.bytes) # SecretKeyLength) =>
       (last.threw = ErrKeySize /\ last.result = 0 /\ last.calls = NoCalls)
  /\ \A p \in DOMAIN kps :
       path[p] = "fromSecretKey" => Len(SecretBytes(p)) = SecretKeyLength

C6_Witness ==
  /\ last.op = "fromSecretKey"
  /\ Len(last.bytes) = SecretKeyLength + 1
  /\ last.skipValidation
  /\ last.threw = ErrKeySize

\* C7: recoverFromMnemonic() on a Keypair built by fromMnemonic, or by an
\* earlier recoverFromMnemonic, returns a new Keypair with the same public
\* key, secret key and mnemonic, and leaves the Keypair it was called on as
\* it was.
C7_RecoveryIsIdempotent ==
  [][(/\ last'.op = "recoverFromMnemonic"
      /\ path[last'.self] \in {"fromMnemonic", "recoverFromMnemonic"}) =>
       LET self == last'.self
           new == last'.result
       IN  /\ last'.threw = NoError
           /\ new = Len(kps) + 1
           /\ kps'[new]._keypair.publicKey = PublicBytes(self)
           /\ NextSecretBytes(new) = SecretBytes(self)
           /\ kps'[new]._mnemonic = getMnemonic(self)
           /\ validateMnemonic(getMnemonic(self))
           /\ kps'[self] = kps[self]
           /\ NextSecretBytes(self) = SecretBytes(self)]_vars

C7_Witness ==
  /\ Len(kps) = 3
  /\ path[1] = "fromMnemonic"
  /\ path[2] = "recoverFromMnemonic"
  /\ last.op = "recoverFromMnemonic"
  /\ last.self = 2
  /\ last.result = 3
  /\ kps[3] = [kps[1] EXCEPT !._keypair.secretKey = -3]
  /\ SecretBytes(3) = SecretBytes(1)

\* C8: every secretKey read returns a new 64-byte array, no Keypair's own,
\* with the bytes the first read of that Keypair returned, and neither a read
\* nor a caller's write into a returned array changes any Keypair's keys or
\* mnemonic.
C8_SecretKeyIsACopy ==
  [][/\ last'.op = "secretKey" =>
          /\ Len(last'.bytes) = SecretKeyLength
          /\ reads[last'.self] # <<>> => last'.bytes = reads[last'.self]
          /\ last'.array \notin owned
          /\ \A p \in DOMAIN kps : kps[p]._keypair.secretKey # last'.array
     /\ last'.op \in {"secretKey", "write"} =>
          /\ kps' = kps
          /\ \A p \in DOMAIN kps : NextSecretBytes(p) = SecretBytes(p)]_vars

C8_Witness ==
  /\ last.op = "secretKey"
  /\ last.bytes = reads[last.self]
  /\ \E r \in returned :
       /\ r[2] = last.self
       /\ r[1] # last.array
       /\ Bytes(r[1]) # last.bytes

\* C9: a caller's write into the array it passed to fromSecretKey leaves the
\* Keypair's secret key as it was, its last 32 bytes equal to its public key.
C9_NotMutatedThroughInput ==
  [][last'.op = "write" =>
       \A p \in DOMAIN kps :
         path[p] = "fromSecretKey" =>
           /\ NextSecretBytes(p) = SecretBytes(p)
           /\ slice(NextSecretBytes(p), PublicKeyOffset, SecretKeyLength)
                = kps'[p]._keypair.publicKey]_vars

\* C10: fromMnemonic, fromSecretKey and recoverFromMnemonic never call
\* generateMnemonic nor the curve service's random generation.
C10_DeterministicPathsUseNoRandomness ==
  last.op \in {"fromMnemonic", "fromSecretKey", "recoverFromMnemonic"} =>
    (last.calls.generateMnemonic = 0 /\ last.calls.generateKeypair = 0)

====
